---------------------------- MODULE Spec2Model ----------------------------
(***************************************************************************)
(* A model of the Rubik's cube move engine of rubiks-cube-mcp.             *)
(*                                                                         *)
(* The repository holds two variants of rubiksCube.ts:                     *)
(*   - the nested-grid engine (six 3x3 grids, src/unnamed/part_000         *)
(*     lines 819-1165), the one rubiksCube.test.ts exercises;              *)
(*   - the flat-array engine (one array and 4-cycle tables,                *)
(*     src/unnamed/part_000 lines 1167-1469).                              *)
(* Both are modelled; the variable engine says which class an instance is. *)
(*                                                                         *)
(* A JavaScript string that the code scans (a move sequence, a move token) *)
(* is a sequence of one-character strings; a sticker value is a string.    *)
(* The 3x3 grids of the nested-grid engine are functions on 0..2, as the   *)
(* code indexes them.  An array of the flat-array engine, whose length the *)
(* code can change, is a sequence: index i of the array is position i + 1. *)
(***************************************************************************)
EXTENDS Integers, Sequences, FiniteSets, TLC

VARIABLES
    engine,       \* "nested" or "flat": which RubiksCube class the instance is
    moveHistory,  \* RubiksCube.moveHistory: the parsed move tokens
    lastCall,     \* the call that produced this state: op, its argument, and
                  \* the length of moveHistory when it was made
    ncalls,       \* number of mutating calls made on the instance
    scr,          \* the locals of a scramble call that is running
    returned,     \* the array a caller holds from getMoveHistory()
    agentState    \* RubiksCubeAgent.state: what the session agent stores

vars == <<engine, moveHistory, lastCall, ncalls, scr, returned, agentState>>

(***************************************************************************)
(* Bounds of the model.                                                    *)
(***************************************************************************)
MaxCalls == 2       \* mutating calls made on one instance
MaxScramble == 1    \* largest numMoves handed to scramble
MaxTestCalls == 6   \* calls a test makes on its engine
MaxTestMoves == 24  \* moves a test applies to its engine
MaxTurns == 2       \* moves applied one token at a time
MaxListLen == 2     \* tokens in the lists handed to applyMoveSequence
MaxScrambleLen == 2 \* largest numMoves of a scramble followed pass by pass

Engines == {"nested", "flat"}

(***************************************************************************)
(* Constants shared by the two variants.                                   *)
(***************************************************************************)
COLORS == [WHITE |-> "W", YELLOW |-> "Y", BLUE |-> "B",
           GREEN |-> "G", RED |-> "R", ORANGE |-> "O"]

Undefined == "undefined"   \* the value of a missing array entry

(***************************************************************************)
(* Nested-grid engine: state and helpers.                                  *)
(***************************************************************************)
\* The array [f[0], f[1], f[2]], with its three entries evaluated.
Array3(f) == (0 :> f[0]) @@ (1 :> f[1]) @@ (2 :> f[2])

FaceOf(c) == Array3([i \in 0..2 |-> Array3([j \in 0..2 |-> c])])

initialSolvedState ==
    [U |-> FaceOf(COLORS.YELLOW), D |-> FaceOf(COLORS.WHITE),
     F |-> FaceOf(COLORS.BLUE),   B |-> FaceOf(COLORS.GREEN),
     L |-> FaceOf(COLORS.ORANGE), R |-> FaceOf(COLORS.RED)]

\* Object.keys(initialSolvedState), in insertion order.
NestedFaceKeys == <<"U", "D", "F", "B", "L", "R">>

\* JSON.parse(JSON.stringify(state)): a fresh structure with the same values.
CopyFace(face) == Array3([i \in 0..2 |-> Array3([j \in 0..2 |-> face[i][j]])])

deepCopyState(state) ==
    [U |-> CopyFace(state.U), D |-> CopyFace(state.D), F |-> CopyFace(state.F),
     B |-> CopyFace(state.B), L |-> CopyFace(state.L), R |-> CopyFace(state.R)]

\* newFace[j][2 - i] = face[i][j] for all i, j.
rotateFaceCW(face) ==
    Array3([r \in 0..2 |-> Array3([c \in 0..2 |-> face[2 - c][r]])])

\* newFace[2 - j][i] = face[i][j] for all i, j.
rotateFaceCCW(face) ==
    Array3([r \in 0..2 |-> Array3([c \in 0..2 |-> face[c][2 - r]])])

\* newState[f][i][j] = v
SetSticker(s, f, i, j, v) == [s EXCEPT ![f][i][j] = v]

\* newState[f][i] = row
SetRow(s, f, i, row) == [s EXCEPT ![f][i] = row]

AdjacentU(n0) ==
    LET tempRow == n0.F[0]
        n1 == SetRow(n0, "F", 0, n0.R[0])
        n2 == SetRow(n1, "R", 0, n1.B[0])
        n3 == SetRow(n2, "B", 0, n2.L[0])
    IN  SetRow(n3, "L", 0, tempRow)

AdjacentD(n0) ==
    LET tempRow == n0.F[2]
        n1 == SetRow(n0, "F", 2, n0.L[2])
        n2 == SetRow(n1, "L", 2, n1.B[2])
        n3 == SetRow(n2, "B", 2, n2.R[2])
    IN  SetRow(n3, "R", 2, tempRow)

AdjacentF(n0) ==
    LET tempCol == Array3([k \in 0..2 |-> n0.U[0][k]])
        n1  == SetSticker(n0,  "U", 0, 0, n0.R[0][2])
        n2  == SetSticker(n1,  "U", 0, 1, n1.R[1][2])
        n3  == SetSticker(n2,  "U", 0, 2, n2.R[2][2])
        n4  == SetSticker(n3,  "R", 0, 2, n3.D[2][2])
        n5  == SetSticker(n4,  "R", 1, 2, n4.D[2][1])
        n6  == SetSticker(n5,  "R", 2, 2, n5.D[2][0])
        n7  == SetSticker(n6,  "D", 2, 0, n6.L[0][0])
        n8  == SetSticker(n7,  "D", 2, 1, n7.L[1][0])
        n9  == SetSticker(n8,  "D", 2, 2, n8.L[2][0])
        n10 == SetSticker(n9,  "L", 0, 0, tempCol[2])
        n11 == SetSticker(n10, "L", 1, 0, tempCol[1])
    IN  SetSticker(n11, "L", 2, 0, tempCol[0])

AdjacentB(n0) ==
    LET tempCol == Array3([k \in 0..2 |-> n0.U[2][k]])
        n1  == SetSticker(n0,  "U", 2, 0, n0.L[2][2])
        n2  == SetSticker(n1,  "U", 2, 1, n1.L[1][2])
        n3  == SetSticker(n2,  "U", 2, 2, n2.L[0][2])
        n4  == SetSticker(n3,  "L", 0, 2, n3.D[0][0])
        n5  == SetSticker(n4,  "L", 1, 2, n4.D[0][1])
        n6  == SetSticker(n5,  "L", 2, 2, n5.D[0][2])
        n7  == SetSticker(n6,  "D", 0, 0, n6.R[2][0])
        n8  == SetSticker(n7,  "D", 0, 1, n7.R[1][0])
        n9  == SetSticker(n8,  "D", 0, 2, n8.R[0][0])
        n10 == SetSticker(n9,  "R", 0, 0, tempCol[0])
        n11 == SetSticker(n10, "R", 1, 0, tempCol[1])
    IN  SetSticker(n11, "R", 2, 0, tempCol[2])

\* Faulty variant: the left turn carries the Front column up and the Down
\* column to the front.
AdjacentLFromFront(n0) ==
    LET tempCol == Array3([k \in 0..2 |-> n0.U[k][0]])
        n1  == SetSticker(n0,  "U", 0, 0, n0.F[0][0])
        n2  == SetSticker(n1,  "U", 1, 0, n1.F[1][0])
        n3  == SetSticker(n2,  "U", 2, 0, n2.F[2][0])
        n4  == SetSticker(n3,  "F", 0, 0, n3.D[0][0])
        n5  == SetSticker(n4,  "F", 1, 0, n4.D[1][0])
        n6  == SetSticker(n5,  "F", 2, 0, n5.D[2][0])
        n7  == SetSticker(n6,  "D", 0, 0, n6.B[2][2])
        n8  == SetSticker(n7,  "D", 1, 0, n7.B[1][2])
        n9  == SetSticker(n8,  "D", 2, 0, n8.B[0][2])
        n10 == SetSticker(n9,  "B", 2, 2, tempCol[0])
        n11 == SetSticker(n10, "B", 1, 2, tempCol[1])
    IN  SetSticker(n11, "B", 0, 2, tempCol[2])

AdjacentL(n0) ==
    LET tempCol == Array3([k \in 0..2 |-> n0.U[k][0]])
        n1  == SetSticker(n0,  "U", 0, 0, n0.B[2][2])
        n2  == SetSticker(n1,  "U", 1, 0, n1.B[1][2])
        n3  == SetSticker(n2,  "U", 2, 0, n2.B[0][2])
        n4  == SetSticker(n3,  "B", 0, 2, n3.D[2][0])
        n5  == SetSticker(n4,  "B", 1, 2, n4.D[1][0])
        n6  == SetSticker(n5,  "B", 2, 2, n5.D[0][0])
        n7  == SetSticker(n6,  "D", 0, 0, n6.F[0][0])
        n8  == SetSticker(n7,  "D", 1, 0, n7.F[1][0])
        n9  == SetSticker(n8,  "D", 2, 0, n8.F[2][0])
        n10 == SetSticker(n9,  "F", 0, 0, tempCol[0])
        n11 == SetSticker(n10, "F", 1, 0, tempCol[1])
    IN  SetSticker(n11, "F", 2, 0, tempCol[2])

AdjacentR(n0) ==
    LET tempCol == Array3([k \in 0..2 |-> n0.U[k][2]])
        n1  == SetSticker(n0,  "U", 0, 2, n0.F[0][2])
        n2  == SetSticker(n1,  "U", 1, 2, n1.F[1][2])
        n3  == SetSticker(n2,  "U", 2, 2, n2.F[2][2])
        n4  == SetSticker(n3,  "F", 0, 2, n3.D[0][2])
        n5  == SetSticker(n4,  "F", 1, 2, n4.D[1][2])
        n6  == SetSticker(n5,  "F", 2, 2, n5.D[2][2])
        n7  == SetSticker(n6,  "D", 0, 2, n6.B[2][0])
        n8  == SetSticker(n7,  "D", 1, 2, n7.B[1][0])
        n9  == SetSticker(n8,  "D", 2, 2, n8.B[0][0])
        n10 == SetSticker(n9,  "B", 0, 0, tempCol[2])
        n11 == SetSticker(n10, "B", 1, 0, tempCol[1])
    IN  SetSticker(n11, "B", 2, 0, tempCol[0])

\* One pass of the for loop of applySingleMoveToState: the face itself is
\* rotated clockwise, then the switch moves the adjacent stickers.
TurnBody(newState, faceChar) ==
    LET n0 == [newState EXCEPT ![faceChar] = rotateFaceCW(newState[faceChar])]
    IN  CASE faceChar = "U" -> AdjacentU(n0)
          [] faceChar = "D" -> AdjacentD(n0)
          [] faceChar = "F" -> AdjacentF(n0)
          [] faceChar = "B" -> AdjacentB(n0)
          [] faceChar = "L" -> AdjacentL(n0)
          [] faceChar = "R" -> AdjacentR(n0)

\* Faulty variant: a primed token turns the face once.
TurnsOfPrimeOnce(modifier) ==
    IF modifier = <<"2">> THEN 2 ELSE 1

\* turns = modifier === "'" ? 3 : modifier === "2" ? 2 : 1
TurnsOf(modifier) ==
    IF modifier = <<"'">> THEN 3 ELSE IF modifier = <<"2">> THEN 2 ELSE 1

\* What stands for the TypeError of rotateFaceCW(undefined): the first
\* character of the move is no key of the state.
NestedTypeError == [error |-> "TypeError"]

RECURSIVE TurnLoop(_, _, _)
\* for (let i = 0; i < turns; i++) { ... }: the body run `turns` times.
\* JavaScript computes the value of one pass before the next pass uses it;
\* binding s to the one element of a set has it evaluated first (an
\* argument left unevaluated would nest a long replay too deeply).
TurnLoop(newState, faceChar, turns) ==
    IF turns = 0 THEN newState
    ELSE CHOOSE r \in {TurnLoop(s, faceChar, turns - 1) :
                          s \in {TurnBody(newState, faceChar)}} : TRUE

applySingleMoveToState(state, move) ==
    IF move = <<>> \/ Head(move) \notin DOMAIN state THEN NestedTypeError
    ELSE LET newState == deepCopyState(state)
             faceChar == Head(move)
             modifier == Tail(move)
             turns    == TurnsOf(modifier)
         IN  TurnLoop(newState, faceChar, turns)


(***************************************************************************)
(* Flat-array engine: state and helpers.                                   *)
(***************************************************************************)
map_face_to_initial_sticker(face) ==
    CASE face = "U" -> COLORS.YELLOW
      [] face = "D" -> COLORS.WHITE
      [] face = "F" -> COLORS.BLUE
      [] face = "B" -> COLORS.GREEN
      [] face = "L" -> COLORS.ORANGE
      [] face = "R" -> COLORS.RED

RECURSIVE repeat(_, _)
\* String.prototype.repeat: count copies of str joined into ONE string.
repeat(str, count) == IF count = 0 THEN "" ELSE str \o repeat(str, count - 1)

\* a.length
ArrayLength(a) == Len(a)

\* a[i]: reading past the end of an array, or a hole, gives undefined.
Get(a, i) == IF 0 <= i /\ i < Len(a) THEN a[i + 1] ELSE Undefined

RECURSIVE Holes(_)
\* n missing entries; each reads as undefined.
Holes(n) == IF n = 0 THEN <<>> ELSE <<Undefined>> \o Holes(n - 1)

\* a[i] = v: writing past the end extends the array, leaving holes.
Put(a, i, v) ==
    IF i < Len(a) THEN [a EXCEPT ![i + 1] = v]
    ELSE a \o Holes(i - Len(a)) \o <<v>>

\* [...a]: a copy of the same length (a hole is copied as undefined).
Spread(a) == a

\* Array.prototype.flat() on an array whose elements are strings: flat()
\* splices only elements that are arrays, and a string is not an array, so
\* every element is kept whole.
flatStrings(a) == a

RECURSIVE flat(_)
\* Array.prototype.flat() on an array of arrays: one level is spliced.
flat(seqs) == IF seqs = <<>> THEN <<>> ELSE Head(seqs) \o flat(Tail(seqs))

FlatFaceOrder == <<"U", "R", "F", "D", "L", "B">>

\* ["U","R","F","D","L","B"].map(s => map_face_to_initial_sticker(s).repeat(9)).flat()
solved_cube ==
    flatStrings([k \in 1..Len(FlatFaceOrder) |->
        repeat(map_face_to_initial_sticker(FlatFaceOrder[k]), 9)])

\* String.prototype.indexOf for a one-character needle: -1 when absent.
IndexOf(seq, c) ==
    IF \E k \in 1..Len(seq) : seq[k] = c
    THEN (CHOOSE k \in 1..Len(seq) : seq[k] = c /\ \A m \in 1..(k - 1) : seq[m] # c) - 1
    ELSE -1

\* Faulty variant: the position is not made zero-based.
S_OneBased(f, i) == IndexOf(FlatFaceOrder, f) * 9 + i

\* "URFDLB".indexOf(f) * 9 + i - 1
S(f, i) == IndexOf(FlatFaceOrder, f) * 9 + i - 1

\* Faulty variant: the pair that closes the cycle is left out.
perm_from_cycle_open(cycle) ==
    [k \in 1..(Len(cycle) - 1) |-> <<cycle[k], cycle[k + 1]>>]

perm_from_cycle(cycle) ==
    [k \in 1..Len(cycle) |->
        IF k < Len(cycle) THEN <<cycle[k], cycle[k + 1]>>
                          ELSE <<cycle[Len(cycle)], cycle[1]>>]

u_move ==
    flat(<<perm_from_cycle(<<S("U", 1), S("U", 3), S("U", 9), S("U", 7)>>),
           perm_from_cycle(<<S("U", 2), S("U", 6), S("U", 8), S("U", 4)>>),
           perm_from_cycle(<<S("F", 1), S("L", 1), S("B", 1), S("R", 1)>>),
           perm_from_cycle(<<S("F", 2), S("L", 2), S("B", 2), S("R", 2)>>),
           perm_from_cycle(<<S("F", 3), S("L", 3), S("B", 3), S("R", 3)>>)>>)

r_move ==
    flat(<<perm_from_cycle(<<S("R", 1), S("R", 3), S("R", 9), S("R", 7)>>),
           perm_from_cycle(<<S("R", 2), S("R", 6), S("R", 8), S("R", 4)>>),
           perm_from_cycle(<<S("U", 9), S("B", 1), S("D", 9), S("F", 9)>>),
           perm_from_cycle(<<S("U", 6), S("B", 4), S("D", 6), S("F", 6)>>),
           perm_from_cycle(<<S("U", 3), S("B", 7), S("D", 3), S("F", 3)>>)>>)

f_move ==
    flat(<<perm_from_cycle(<<S("F", 1), S("F", 3), S("F", 9), S("F", 7)>>),
           perm_from_cycle(<<S("F", 2), S("F", 6), S("F", 8), S("F", 4)>>),
           perm_from_cycle(<<S("U", 7), S("R", 1), S("D", 3), S("L", 9)>>),
           perm_from_cycle(<<S("U", 8), S("R", 4), S("D", 2), S("L", 6)>>),
           perm_from_cycle(<<S("U", 9), S("R", 7), S("D", 1), S("L", 3)>>)>>)

b_move ==
    flat(<<perm_from_cycle(<<S("B", 1), S("B", 3), S("B", 9), S("B", 7)>>),
           perm_from_cycle(<<S("B", 2), S("B", 6), S("B", 8), S("B", 4)>>),
           perm_from_cycle(<<S("U", 3), S("L", 1), S("D", 7), S("R", 3)>>),
           perm_from_cycle(<<S("U", 2), S("L", 4), S("D", 8), S("R", 6)>>),
           perm_from_cycle(<<S("U", 1), S("L", 7), S("D", 9), S("R", 9)>>)>>)

l_move ==
    flat(<<perm_from_cycle(<<S("L", 1), S("L", 3), S("L", 9), S("L", 7)>>),
           perm_from_cycle(<<S("L", 2), S("L", 6), S("L", 8), S("L", 4)>>),
           perm_from_cycle(<<S("U", 1), S("F", 1), S("D", 1), S("B", 9)>>),
           perm_from_cycle(<<S("U", 4), S("F", 4), S("D", 4), S("B", 6)>>),
           perm_from_cycle(<<S("U", 7), S("F", 7), S("D", 7), S("B", 3)>>)>>)

d_move ==
    flat(<<perm_from_cycle(<<S("D", 1), S("D", 3), S("D", 9), S("D", 7)>>),
           perm_from_cycle(<<S("D", 2), S("D", 6), S("D", 8), S("D", 4)>>),
           perm_from_cycle(<<S("F", 7), S("R", 7), S("B", 7), S("L", 7)>>),
           perm_from_cycle(<<S("F", 8), S("R", 8), S("B", 8), S("L", 8)>>),
           perm_from_cycle(<<S("F", 9), S("R", 9), S("B", 9), S("L", 9)>>)>>)

RECURSIVE ApplyPairs(_, _, _)
\* for (let x of perm) new_cube[x[1]] = cube[x[0]];
ApplyPairs(new_cube, cube, perm) ==
    IF perm = <<>> THEN new_cube
    ELSE ApplyPairs(Put(new_cube, Head(perm)[2], Get(cube, Head(perm)[1])),
                    cube, Tail(perm))

apply_move(cube, perm) ==
    CHOOSE new_cube \in {ApplyPairs(Spread(c), c, perm) : c \in {cube}} : TRUE

\* The value that stands for `throw new Error("Invalid move: ...")`.
InvalidMove == <<"Error: Invalid move">>

apply_single_move_to_cube(cube, move) ==
    CASE move = <<"U">>      -> apply_move(cube, u_move)
      [] move = <<"U", "2">> -> apply_move(apply_move(cube, u_move), u_move)
      [] move = <<"U", "'">> -> apply_move(apply_move(apply_move(cube, u_move), u_move), u_move)
      [] move = <<"D">>      -> apply_move(cube, d_move)
      [] move = <<"D", "2">> -> apply_move(apply_move(cube, d_move), d_move)
      [] move = <<"D", "'">> -> apply_move(apply_move(apply_move(cube, d_move), d_move), d_move)
      [] move = <<"F">>      -> apply_move(cube, f_move)
      [] move = <<"F", "2">> -> apply_move(apply_move(cube, f_move), f_move)
      [] move = <<"F", "'">> -> apply_move(apply_move(apply_move(cube, f_move), f_move), f_move)
      [] move = <<"B">>      -> apply_move(cube, b_move)
      [] move = <<"B", "2">> -> apply_move(apply_move(cube, b_move), b_move)
      [] move = <<"B", "'">> -> apply_move(apply_move(apply_move(cube, b_move), b_move), b_move)
      [] move = <<"L">>      -> apply_move(cube, l_move)
      [] move = <<"L", "2">> -> apply_move(apply_move(cube, l_move), l_move)
      [] move = <<"L", "'">> -> apply_move(apply_move(apply_move(cube, l_move), l_move), l_move)
      [] move = <<"R">>      -> apply_move(cube, r_move)
      [] move = <<"R", "2">> -> apply_move(apply_move(cube, r_move), r_move)
      [] move = <<"R", "'">> -> apply_move(apply_move(apply_move(cube, r_move), r_move), r_move)
      [] OTHER               -> InvalidMove

(***************************************************************************)
(* Move notation: strings, tokens and the parser of applyMoveSequence.     *)
(***************************************************************************)
\* Faulty variant: the class also holds lowercase letters.
FaceLettersAnyCase == {"R", "L", "U", "D", "F", "B", "r", "l", "u", "d", "f", "b"}

FaceLetters == {"R", "L", "U", "D", "F", "B"}     \* the class [RLUDFB]
ModifierCharsAnyDigit == {"'", "2", "3"}   \* faulty variant: 3 is a modifier too
ModifierChars == {"'", "2"}                       \* the class ['2]
Whitespace == {" "}

RECURSIVE TrimStart(_)
TrimStart(str) ==
    IF str # <<>> /\ Head(str) \in Whitespace THEN TrimStart(Tail(str)) ELSE str

RECURSIVE TrimEnd(_)
TrimEnd(str) ==
    IF str # <<>> /\ str[Len(str)] \in Whitespace
    THEN TrimEnd(SubSeq(str, 1, Len(str) - 1)) ELSE str

\* String.prototype.trim
Trim(str) == TrimEnd(TrimStart(str))

RECURSIVE MatchFrom(_, _)
\* The matches of /([RLUDFB])(['2]?)/g in str from position k on, left to
\* right: a face letter, with the modifier character that follows it if any.
MatchFrom(str, k) ==
    IF k > Len(str) THEN <<>>
    ELSE IF str[k] \in FaceLetters
         THEN IF k + 1 <= Len(str) /\ str[k + 1] \in ModifierChars
              THEN <<SubSeq(str, k, k + 1)>> \o MatchFrom(str, k + 2)
              ELSE <<SubSeq(str, k, k)>> \o MatchFrom(str, k + 1)
         ELSE MatchFrom(str, k + 1)

\* str.match(regex) with the g flag: null (here the empty list, which match
\* never returns otherwise) when nothing matches.
MatchMoves(str) == MatchFrom(str, 1)

NonEmpty(m) == m # <<>>

\* Faulty variant: the parsed moves replace the history.
HistoryAfterApplyReplaces(history, sequence) ==
    LET moves == MatchMoves(Trim(sequence))
    IN  IF moves # <<>> THEN SelectSeq(moves, NonEmpty) ELSE history

\* The value of this.moveHistory after applyMoveSequence(sequence).
HistoryAfterApply(history, sequence) ==
    LET moves == MatchMoves(Trim(sequence))
    IN  IF moves # <<>>
        THEN history \o SelectSeq(moves, NonEmpty)
        ELSE history

RECURSIVE Join(_, _)
\* Array.prototype.join(sep) for an array of strings.
Join(strs, sep) ==
    IF strs = <<>> THEN <<>>
    ELSE IF Len(strs) = 1 THEN strs[1]
    ELSE strs[1] \o sep \o Join(Tail(strs), sep)

(***************************************************************************)
(* The queries of the two RubiksCube classes, as functions of the history. *)
(***************************************************************************)
RECURSIVE NestedReplay(_, _)
\* for (const move of this.moveHistory) currentState = applySingleMoveToState(...);
\* an exception ends the loop and the call.
NestedReplay(currentState, history) ==
    IF history = <<>> THEN currentState
    ELSE LET next == applySingleMoveToState(currentState, Head(history))
         IN  IF next = NestedTypeError THEN NestedTypeError
             ELSE NestedReplay(next, Tail(history))

\* Faulty variant: the replay starts at the second move of the history.
NestedGetCurrentStateSkipsFirst(history) ==
    NestedReplay(deepCopyState(initialSolvedState),
                 IF history = <<>> THEN history ELSE Tail(history))

NestedGetCurrentState(history) ==
    NestedReplay(deepCopyState(initialSolvedState), history)

\* Faulty variant: two objects with as many keys are taken to be equal.
deepStrictEqualKeysOnly(obj1, obj2) ==
    Cardinality(DOMAIN obj1) = Cardinality(DOMAIN obj2)

\* The custom deepStrictEqual on two cube states: same keys, equal leaves.
deepStrictEqual(obj1, obj2) ==
    /\ Cardinality(DOMAIN obj1) = Cardinality(DOMAIN obj2)
    /\ \A f \in DOMAIN obj1 :
          /\ f \in DOMAIN obj2
          /\ Cardinality(DOMAIN obj1[f]) = Cardinality(DOMAIN obj2[f])
          /\ \A i \in DOMAIN obj1[f] :
                /\ i \in DOMAIN obj2[f]
                /\ Cardinality(DOMAIN obj1[f][i]) = Cardinality(DOMAIN obj2[f][i])
                /\ \A j \in DOMAIN obj1[f][i] :
                      /\ j \in DOMAIN obj2[f][i]
                      /\ obj1[f][i][j] = obj2[f][i][j]

\* Faulty variant: the fallback loop looks at the centre of each face only.
FaceCheckCentresOnly(currentState) ==
    \A k \in 1..Len(NestedFaceKeys) :
        LET face == NestedFaceKeys[k]
        IN  currentState[face][1][1] = initialSolvedState[face][1][1]

\* The fallback loop of the nested-grid isSolved: every sticker of every
\* face has the colour of that face's initial centre.
FaceCheckPasses(currentState) ==
    \A k \in 1..Len(NestedFaceKeys) :
        LET face == NestedFaceKeys[k]
            expectedColor == initialSolvedState[face][1][1]
        IN  \A i \in 0..2 : \A j \in 0..2 :
                currentState[face][i][j] = expectedColor

NestedIsSolvedState(currentState) ==
    IF deepStrictEqual(currentState, initialSolvedState) THEN TRUE
    ELSE FaceCheckPasses(currentState)

NestedIsSolved(history) == NestedIsSolvedState(NestedGetCurrentState(history))

RECURSIVE FlatReplay(_, _)
\* for (const move of this.moveHistory) cube = apply_single_move_to_cube(cube, move);
\* an exception ends the loop and the call.
FlatReplay(cube, history) ==
    IF history = <<>> THEN cube
    ELSE LET next == apply_single_move_to_cube(cube, Head(history))
         IN  IF next = InvalidMove THEN InvalidMove
             ELSE FlatReplay(next, Tail(history))

FlatGetCurrentState(history) == FlatReplay(Spread(solved_cube), history)

FlatIsSolvedState(currentState) ==
    IF ArrayLength(currentState) # ArrayLength(solved_cube) THEN FALSE
    ELSE \A i \in 0..(ArrayLength(currentState) - 1) :
            Get(currentState, i) = Get(solved_cube, i)

FlatIsSolved(history) == FlatIsSolvedState(FlatGetCurrentState(history))

FlatGetStickerAt(history, face, i) == Get(FlatGetCurrentState(history), S(face, i))

\* The instance's own queries.
GetCurrentState ==
    IF engine = "nested" THEN NestedGetCurrentState(moveHistory)
                         ELSE FlatGetCurrentState(moveHistory)

IsSolved ==
    IF engine = "nested" THEN NestedIsSolved(moveHistory)
                         ELSE FlatIsSolved(moveHistory)

\* The solved constant of the instance's class (this.initialState).
InitialState == IF engine = "nested" THEN initialSolvedState ELSE solved_cube

GetMoveHistory == moveHistory

(***************************************************************************)
(* scramble: the random draws are a nondeterministic choice.               *)
(***************************************************************************)
Null == <<"null">>      \* lastFace before the first draw

RECURSIVE DigitsOf(_)
\* The decimal spelling of an array index, as Object.keys gives it.
DigitsOf(i) ==
    IF i < 10 THEN <<ToString(i)>> ELSE DigitsOf(i \div 10) \o <<ToString(i % 10)>>

\* Object.keys(this.initialState) as Face[]: the six face letters for the
\* nested-grid object, the indices of the array for the flat-array engine.
ScrambleFaces(e) ==
    IF e = "nested"
    THEN [k \in 1..Len(NestedFaceKeys) |-> <<NestedFaceKeys[k]>>]
    ELSE [k \in 1..ArrayLength(solved_cube) |-> DigitsOf(k - 1)]

Modifiers == <<<<>>, <<"'">>, <<"2">>>>

\* Faulty variant: only the same face is drawn again.
RejectedSameOnly(lastFace, potentialFace) == potentialFace = lastFace

\* Faulty variant: after the first move every face is drawn again.
RejectedAfterFirst(lastFace, potentialFace) == lastFace # Null

\* The while condition of the do-while loop: the drawn face is drawn again.
Rejected(lastFace, potentialFace) ==
    \/ potentialFace = lastFace
    \/ (lastFace = <<"R">> /\ potentialFace = <<"L">>)
    \/ (lastFace = <<"L">> /\ potentialFace = <<"R">>)
    \/ (lastFace = <<"U">> /\ potentialFace = <<"D">>)
    \/ (lastFace = <<"D">> /\ potentialFace = <<"U">>)
    \/ (lastFace = <<"F">> /\ potentialFace = <<"B">>)
    \/ (lastFace = <<"B">> /\ potentialFace = <<"F">>)

RECURSIVE RandomMoves(_, _, _)
\* Every value randomMoves can have after numMoves passes of the for loop.
RandomMoves(faces, numMoves, lastFace) ==
    IF numMoves = 0 THEN {<<>>}
    ELSE UNION {
            {<<faces[a] \o Modifiers[b]>> \o rest :
                rest \in RandomMoves(faces, numMoves - 1, faces[a])} :
            a \in {x \in 1..Len(faces) : ~Rejected(lastFace, faces[x])},
            b \in 1..Len(Modifiers)}

\* this.reset(); ...; this.applyMoveSequence(randomMoves.join(" "))
HistoryAfterScramble(randomMoves) ==
    HistoryAfterApply(<<>>, Join(randomMoves, <<" ">>))

(***************************************************************************)
(* The operations of an engine instance.                                   *)
(***************************************************************************)
\* No scramble call is running.
NotScrambling ==
    [pc |-> "idle", numMoves |-> 0, i |-> 0, lastFace |-> Null,
     potentialFace |-> Null, randomMoves |-> <<>>, preLen |-> 0]

\* No caller holds an array from getMoveHistory().
NothingReturned == [held |-> FALSE, own |-> FALSE, array |-> <<>>, edits |-> 0]

\* The instance is used directly, not through a session agent.
NoAgent == [kind |-> "none"]

Call(op, seq, n) == [op |-> op, seq |-> seq, n |-> n, preLen |-> Len(moveHistory)]

\* new RubiksCube(initialMoves); no argument and "" are both falsy.
Constructor(e, initialMoves) ==
    /\ engine = e
    /\ moveHistory = IF initialMoves # <<>>
                     THEN HistoryAfterApply(<<>>, initialMoves) ELSE <<>>
    /\ lastCall = [op |-> "new", seq |-> initialMoves, n |-> 0, preLen |-> 0]
    /\ ncalls = 0
    /\ scr = NotScrambling
    /\ returned = NothingReturned
    /\ agentState = NoAgent

ApplyMoveSequence(sequence) ==
    /\ moveHistory' = HistoryAfterApply(moveHistory, sequence)
    /\ lastCall' = Call("applyMoveSequence", sequence, 0)
    /\ ncalls' = ncalls + 1
    /\ UNCHANGED <<engine, scr, returned, agentState>>

\* Faulty variant: reset leaves the recorded moves in place.
ResetKeepsHistory ==
    /\ moveHistory' = moveHistory
    /\ lastCall' = Call("reset", <<>>, 0)
    /\ ncalls' = ncalls + 1
    /\ UNCHANGED <<engine, scr, returned, agentState>>

Reset ==
    /\ moveHistory' = <<>>
    /\ lastCall' = Call("reset", <<>>, 0)
    /\ ncalls' = ncalls + 1
    /\ UNCHANGED <<engine, scr, returned, agentState>>

\* Faulty variant: scramble does not reset before it generates moves.
ScrambleKeepsHistory(numMoves) ==
    /\ \E randomMoves \in RandomMoves(ScrambleFaces(engine), numMoves, Null) :
          moveHistory' = HistoryAfterApply(moveHistory, Join(randomMoves, <<" ">>))
    /\ lastCall' = Call("scramble", <<>>, numMoves)
    /\ ncalls' = ncalls + 1
    /\ UNCHANGED <<engine, scr, returned, agentState>>

\* Faulty variant: numMoves 0 is taken for a missing argument.
ScrambleZeroAsDefault(numMoves) ==
    /\ \E randomMoves \in RandomMoves(ScrambleFaces(engine),
                                       IF numMoves = 0 THEN MaxScramble ELSE numMoves, Null) :
          moveHistory' = HistoryAfterScramble(randomMoves)
    /\ lastCall' = Call("scramble", <<>>, numMoves)
    /\ ncalls' = ncalls + 1
    /\ UNCHANGED <<engine, scr, returned, agentState>>

Scramble(numMoves) ==
    /\ \E randomMoves \in RandomMoves(ScrambleFaces(engine), numMoves, Null) :
          moveHistory' = HistoryAfterScramble(randomMoves)
    /\ lastCall' = Call("scramble", <<>>, numMoves)
    /\ ncalls' = ncalls + 1
    /\ UNCHANGED <<engine, scr, returned, agentState>>

(***************************************************************************)
(* Spec: an engine driven by any calls, with short input strings.          *)
(***************************************************************************)
Str(tokens) == Join(tokens, <<" ">>)

Inputs ==
    { <<"R">>, <<"R", "'">>, <<"U", "'">>, <<"F", "2">>,
      <<"B", " ", "L">>, <<"D", "2", " ", "x">>,
      <<"r", " ", "u", "2">>, <<" ">>, <<"U", "D">>, <<"L", "2", "'">> }

\* The arguments handed to the constructor: none, an empty string, a
\* sequence, and a string no move is found in.
InitialMoves == {<<>>, <<"R", "'">>, <<"B", " ", "L">>, <<"r", " ", "u", "2">>}

Init == \E e \in Engines : \E initialMoves \in InitialMoves :
            Constructor(e, initialMoves)

DoApply == ncalls < MaxCalls /\ \E sequence \in Inputs : ApplyMoveSequence(sequence)

DoReset == ncalls < MaxCalls /\ Reset

DoScramble == ncalls < MaxCalls /\ \E numMoves \in 0..MaxScramble : Scramble(numMoves)

Next == DoApply \/ DoReset \/ DoScramble

Spec == Init /\ [][Next]_vars

(***************************************************************************)
(* SpecTests: a fresh engine fed the move sequences of the test suite.     *)
(***************************************************************************)
FaceTokens == {<<"U">>, <<"D">>, <<"F">>, <<"B">>, <<"L">>, <<"R">>}

Prime(X) == X \o <<"'">>

Double(X) == X \o <<"2">>

SexyMove == <<<<"R">>, <<"U">>, <<"R", "'">>, <<"U", "'">>>>

RECURSIVE Times(_, _)
Times(tokens, n) == IF n = 0 THEN <<>> ELSE tokens \o Times(tokens, n - 1)

SixFaces == <<<<"F">>, <<"B">>, <<"U">>, <<"D">>, <<"L">>, <<"R">>>>

TestSequences ==
    {Str(<<X, X, X, X>>) : X \in FaceTokens}
    \cup {Str(<<X, Prime(X)>>) : X \in FaceTokens}
    \cup {Str(<<Prime(X), X>>) : X \in FaceTokens}
    \cup {Str(<<Double(X), Double(X)>>) : X \in FaceTokens}
    \cup {Str(<<<<"R">>>>), Str(<<<<"L">>>>), Str(<<<<"F">>>>)}
    \cup {Str(Times(SexyMove, 1)), Str(Times(SexyMove, 2)),
          Str(Times(SexyMove, 4)), Str(Times(SexyMove, 6))}
    \cup {Str(Times(SixFaces, 2))}

\* The sequences a test goes on with after its first call: more
\* repetitions of R U R' U'.
FollowUps ==
    {Str(Times(SexyMove, 1)), Str(Times(SexyMove, 2)), Str(Times(SexyMove, 4))}

InitTests == \E e \in Engines : Constructor(e, <<>>)

TestApply ==
    /\ ncalls < MaxTestCalls
    /\ \E sequence \in TestSequences :
          /\ ncalls = 0 \/ sequence \in FollowUps
          /\ Len(HistoryAfterApply(moveHistory, sequence)) <= MaxTestMoves
          /\ ApplyMoveSequence(sequence)

NextTests == TestApply

SpecTests == InitTests /\ [][NextTests]_vars

(***************************************************************************)
(* Vocabulary of the claims.                                               *)
(***************************************************************************)
\* The instance was fresh (empty history) and this is the state right after
\* its first call, applyMoveSequence(sequence).
FreshAfter(sequence) ==
    /\ lastCall.op = "applyMoveSequence"
    /\ lastCall.seq = sequence
    /\ lastCall.preLen = 0
    /\ ncalls = 1

\* getCurrentState() equals the solved constant and isSolved() is true.
BackToSolved == GetCurrentState = InitialState /\ IsSolved

\* C1: for every face X, a fresh engine after applyMoveSequence("X X X X")
\* has getCurrentState() equal to the solved constant and isSolved() true.
C1_FourTurnsSolved ==
    \A X \in FaceTokens : FreshAfter(Str(<<X, X, X, X>>)) => BackToSolved

\* C2: for every face X, a fresh engine is back in the solved state after
\* applyMoveSequence("X X'") and also after applyMoveSequence("X' X").
C2_TurnAndInverseSolved ==
    \A X \in FaceTokens :
        (FreshAfter(Str(<<X, Prime(X)>>)) \/ FreshAfter(Str(<<Prime(X), X>>)))
            => BackToSolved

\* C3: for every face X, a fresh engine is back in the solved state after
\* applyMoveSequence("X2 X2").
C3_DoubleTwiceSolved ==
    \A X \in FaceTokens : FreshAfter(Str(<<Double(X), Double(X)>>)) => BackToSolved

\* The sticker at position p (1..9, row by row) of a face: getStickerAt of
\* the flat-array engine, state[face][row][col] of the nested-grid engine.
StickerAt(face, p) ==
    IF engine = "nested"
    THEN NestedGetCurrentState(moveHistory)[face][(p - 1) \div 3][(p - 1) % 3]
    ELSE FlatGetStickerAt(moveHistory, face, p)

\* C5: on a fresh engine, after applyMoveSequence("R") the stickers U3, U6
\* and U9 are blue, the stickers F3, F6 and F9 are white, and isSolved() is
\* false.
C5_RightTurnStickers ==
    FreshAfter(Str(<<<<"R">>>>)) =>
        /\ \A p \in {3, 6, 9} : StickerAt("U", p) = COLORS.BLUE
        /\ \A p \in {3, 6, 9} : StickerAt("F", p) = COLORS.WHITE
        /\ ~IsSolved

\* C6: "R U R' U'" six times returns a fresh engine to the solved state,
\* in one applyMoveSequence call or split over several calls; after two
\* repetitions the cube is not solved.
C6_SixSexyMovesSolved ==
    /\ moveHistory = Times(SexyMove, 6) => BackToSolved
    /\ moveHistory = Times(SexyMove, 2) => ~IsSolved

\* C7: on a fresh engine, after applyMoveSequence("F B U D L R F B U D L R")
\* isSolved() is false.
C7_SixFacesTwiceNotSolved ==
    FreshAfter(Str(Times(SixFaces, 2))) => ~IsSolved

C7_Witness ==
    /\ FreshAfter(Str(Times(SixFaces, 2)))
    /\ Len(moveHistory) = 12
    /\ engine = "nested"

(***************************************************************************)
(* SpecTurns: every sequence of tokens, applied one token per call.        *)
(***************************************************************************)
Tokens == FaceTokens \cup {Prime(X) : X \in FaceTokens} \cup {Double(X) : X \in FaceTokens}

InitTurns == \E e \in Engines : Constructor(e, <<>>)

Turn ==
    /\ Len(moveHistory) < MaxTurns
    /\ \E token \in Tokens : ApplyMoveSequence(token)

NextTurns == Turn

SpecTurns == InitTurns /\ [][NextTurns]_vars

(***************************************************************************)
(* Cubes whose stickers all differ, to observe a move as a permutation.    *)
(***************************************************************************)
Labels == [i \in 1..54 |-> ToString(i - 1)]

NestedLabels ==
    [f \in DOMAIN initialSolvedState |->
        Array3([r \in 0..2 |-> Array3([c \in 0..2 |-> f \o ToString(3 * r + c)])])]

\* The table the flat-array engine names after face X.
MoveTable(X) ==
    CASE X = "U" -> u_move
      [] X = "R" -> r_move
      [] X = "F" -> f_move
      [] X = "B" -> b_move
      [] X = "L" -> l_move
      [] X = "D" -> d_move

FlatTokenLaws(c) ==
    \A X \in FaceLetters :
        \A once \in {apply_single_move_to_cube(c, <<X>>)} :
        \A twice \in {apply_single_move_to_cube(once, <<X>>)} :
        \A thrice \in {apply_single_move_to_cube(twice, <<X>>)} :
            /\ once = apply_move(c, MoveTable(X))
            /\ apply_single_move_to_cube(c, <<X, "2">>) = twice
            /\ apply_single_move_to_cube(c, <<X, "'">>) = thrice

NestedTokenLaws(s) ==
    \A X \in FaceLetters :
        \A once \in {applySingleMoveToState(s, <<X>>)} :
        \A twice \in {applySingleMoveToState(once, <<X>>)} :
        \A thrice \in {applySingleMoveToState(twice, <<X>>)} :
            /\ once = TurnBody(deepCopyState(s), X)
            /\ applySingleMoveToState(s, <<X, "2">>) = twice
            /\ applySingleMoveToState(s, <<X, "'">>) = thrice

\* C4: from every reachable state and for every face X, the token X' gives
\* the state that three clockwise turns X give, X2 the state that two give,
\* and plain X applies the clockwise turn of X (and of no other face) once.
C4_ModifiersAreRepeatedTurns ==
    IF engine = "nested"
    THEN \A s \in {NestedGetCurrentState(moveHistory),
                   NestedReplay(NestedLabels, moveHistory)} : NestedTokenLaws(s)
    ELSE \A c \in {FlatGetCurrentState(moveHistory),
                   FlatReplay(Labels, moveHistory)} : FlatTokenLaws(c)

C4_Witness ==
    /\ engine = "nested"
    /\ Len(moveHistory) = 2
    /\ NestedGetCurrentState(moveHistory) # initialSolvedState
    /\ applySingleMoveToState(NestedGetCurrentState(moveHistory), <<"R", "'">>)
          # applySingleMoveToState(NestedGetCurrentState(moveHistory), <<"R">>)

(***************************************************************************)
(* The move tables of the flat-array engine as permutations of 0..53.      *)
(***************************************************************************)
Sources(t) == {t[k][1] : k \in 1..Len(t)}

Dests(t) == {t[k][2] : k \in 1..Len(t)}

\* Where the sticker at index i goes.
Succ(t, i) == t[CHOOSE k \in 1..Len(t) : t[k][1] = i][2]

OwnRing(X) == {S(X, p) : p \in (1..9) \ {5}}

FaceOfIndex(i) == FlatFaceOrder[(i \div 9) + 1]

OppositeFace(X) ==
    CASE X = "U" -> "D" [] X = "D" -> "U"
      [] X = "R" -> "L" [] X = "L" -> "R"
      [] X = "F" -> "B" [] X = "B" -> "F"

FiveDisjointFourCycles(X) ==
    LET t == MoveTable(X)
        src == Sources(t)
        others == src \ OwnRing(X)
    IN  /\ Len(t) = 20
        /\ Cardinality(src) = 20
        /\ Dests(t) = src
        /\ src \subseteq 0..53
        /\ \A i \in src :
              /\ Succ(t, i) # i
              /\ Succ(t, Succ(t, i)) # i
              /\ Succ(t, Succ(t, Succ(t, Succ(t, i)))) = i
        /\ OwnRing(X) \subseteq src
        /\ Cardinality(others) = 12
        /\ \A f \in FaceLetters :
              Cardinality({i \in others : FaceOfIndex(i) = f})
                 = IF f \in {X, OppositeFace(X)} THEN 0 ELSE 3

TablesAreFiveFourCycles == \A X \in FaceLetters : FiveDisjointFourCycles(X)

MovesOnlyItsTwenty(c, X) ==
    \A t \in {MoveTable(X)} : \A n \in {apply_move(c, t)} :
        /\ \A i \in (0..53) \ Sources(t) : Get(n, i) = Get(c, i)
        /\ \A f \in FaceLetters : Get(n, S(f, 5)) = Get(c, S(f, 5))
        /\ \A k \in 1..Len(t) : Get(n, t[k][2]) = Get(c, t[k][1])

\* C8: each of the six flat-array move tables is five disjoint 4-cycles over
\* twenty distinct indices of 0..53 (the eight non-centre stickers of the
\* turned face and three stickers on each of its four neighbours), and
\* apply_move leaves the other 34 entries, the six centres among them,
\* unchanged.
C8_TablesAreFiveFourCycles ==
    /\ TablesAreFiveFourCycles
    /\ \A c \in {FlatReplay(Labels, moveHistory), FlatGetCurrentState(moveHistory)} :
          \A X \in FaceLetters : MovesOnlyItsTwenty(c, X)

C8_Witness ==
    /\ Len(moveHistory) = 2
    /\ LET c == FlatReplay(Labels, moveHistory)
       IN  /\ c # Labels
           /\ Cardinality({i \in 0..53 : Get(apply_move(c, r_move), i) # Get(c, i)}) = 20

\* C9: in every reachable state isSolved() is true exactly when
\* getCurrentState() equals the solved constant; the fallback loop of the
\* nested-grid isSolved never passes on a state that differs from it.
C9_IsSolvedIffSolvedConstant ==
    /\ IsSolved <=> (GetCurrentState = InitialState)
    /\ engine = "nested" =>
          (FaceCheckPasses(NestedGetCurrentState(moveHistory))
              => NestedGetCurrentState(moveHistory) = initialSolvedState)

C9_Witness ==
    /\ engine = "nested"
    /\ moveHistory # <<>>
    /\ ~deepStrictEqual(NestedGetCurrentState(moveHistory), initialSolvedState)
    /\ ~IsSolved

\* C10: after any applyMoveSequence and scramble calls, reset() leaves the
\* move history empty, the state equal to the solved constant and isSolved()
\* true.
C10_ResetRestoresSolved ==
    lastCall.op = "reset" =>
        /\ GetMoveHistory = <<>>
        /\ GetCurrentState = InitialState
        /\ IsSolved

C10_Witness ==
    /\ lastCall.op = "reset"
    /\ lastCall.preLen > 0

(***************************************************************************)
(* The state as a fold of the history, taken from its last token backwards.*)
(***************************************************************************)
ApplyToken(s, token) ==
    IF engine = "nested" THEN applySingleMoveToState(s, token)
                         ELSE apply_single_move_to_cube(s, token)

RECURSIVE FoldHistory(_, _)
FoldHistory(s, history) ==
    IF history = <<>> THEN s
    ELSE CHOOSE r \in {ApplyToken(before, history[Len(history)]) :
                before \in {FoldHistory(s, SubSeq(history, 1, Len(history) - 1))}} : TRUE

IsSolvedState(s) ==
    IF engine = "nested" THEN NestedIsSolvedState(s) ELSE FlatIsSolvedState(s)

\* The answers of a second instance of the same class, built by handing the
\* constructor this instance's history joined by spaces.
TwinHistory == HistoryAfterApply(<<>>, Join(moveHistory, <<" ">>))

\* C11: the current state is a function of the move history only: however
\* the history was reached (constructor argument, applyMoveSequence, reset),
\* getCurrentState() is the solved constant folded through the history
\* tokens in order, isSolved() is the solved test of that fold, and an
\* instance driven to the same history another way gives the same answers.
C11_StateIsFoldOfHistory ==
    \A folded \in {FoldHistory(InitialState, moveHistory)} :
        /\ GetCurrentState = folded
        /\ IsSolved = IsSolvedState(folded)
        /\ TwinHistory = moveHistory
        /\ (IF engine = "nested" THEN NestedGetCurrentState(TwinHistory)
                                 ELSE FlatGetCurrentState(TwinHistory)) = folded

C11_Witness ==
    /\ engine = "nested"
    /\ lastCall.op = "applyMoveSequence"
    /\ lastCall.preLen > 0
    /\ Len(moveHistory) > lastCall.preLen
    /\ ncalls = 2

(***************************************************************************)
(* SpecParse: one applyMoveSequence call, on a list of well-formed tokens   *)
(* joined by single spaces or on a string that is not such a list.         *)
(***************************************************************************)
RECURSIVE TokenLists(_)
\* Every list of at most n of the eighteen tokens.
TokenLists(n) ==
    IF n = 0 THEN {<<>>}
    ELSE LET shorter == TokenLists(n - 1)
         IN  shorter \cup {<<token>> \o l : token \in Tokens,
                                           l \in {x \in shorter : Len(x) = n - 1}}

\* Strings that are no list of well-formed tokens, each with the tokens
\* found in it, in input order.
Malformed ==
    { [input |-> <<"r", " ", "u", "2">>,                tokens |-> <<>>],
      [input |-> <<"1", "2", "3">>,                     tokens |-> <<>>],
      [input |-> <<"M", " ", "E", " ", "x">>,           tokens |-> <<>>],
      [input |-> <<" ", " ">>,                          tokens |-> <<>>],
      [input |-> <<"R", " ", "x", " ", "U", "'">>,      tokens |-> <<<<"R">>, <<"U", "'">>>>],
      [input |-> <<"D", "2", "x">>,                     tokens |-> <<<<"D", "2">>>>],
      [input |-> <<"R", "3", " ", "u", " ", "F">>,      tokens |-> <<<<"R">>, <<"F">>>>],
      [input |-> <<"2", "B", " ", "'", "L">>,           tokens |-> <<<<"B">>, <<"L">>>>] }

AllTokenLists == TokenLists(MaxListLen)

\* An instance with or without earlier moves, and one call on it.
InitParse == \E e \in Engines : \E initialMoves \in InitialMoves :
                Constructor(e, initialMoves)

ParseTokens ==
    /\ lastCall.op = "new"
    /\ \E tokens \in AllTokenLists : ApplyMoveSequence(Str(tokens))

ParseMalformed ==
    /\ lastCall.op = "new"
    /\ \E m \in Malformed : ApplyMoveSequence(m.input)

NextParse == ParseTokens \/ ParseMalformed

SpecParse == InitParse /\ [][NextParse]_vars

RECURSIVE SplitAtSpaces(_, _)
\* The pieces of str between single spaces (piece: the piece being read).
SplitAtSpaces(str, piece) ==
    IF str = <<>> THEN <<piece>>
    ELSE IF Head(str) = " " THEN <<piece>> \o SplitAtSpaces(Tail(str), <<>>)
    ELSE SplitAtSpaces(Tail(str), piece \o <<Head(str)>>)

\* The list a string spells, when it is a list of tokens joined by spaces.
Pieces(str) == IF str = <<>> THEN <<>> ELSE SplitAtSpaces(str, <<>>)

IsTokenList(str) == \A k \in 1..Len(Pieces(str)) : Pieces(str)[k] \in Tokens

\* C12: applyMoveSequence of well-formed tokens joined by single spaces
\* appends exactly that list, in order, to the move history; on a fresh
\* engine the history is then the list, and an engine created from the
\* history joined by spaces has the same history.
C12_TokenListAppended ==
    /\ [][(lastCall'.op = "applyMoveSequence" /\ IsTokenList(lastCall'.seq))
            => moveHistory' = moveHistory \o Pieces(lastCall'.seq)]_vars
    /\ [](FreshAfter(lastCall.seq) /\ IsTokenList(lastCall.seq)
            => GetMoveHistory = Pieces(lastCall.seq))
    /\ [](HistoryAfterApply(<<>>, Join(GetMoveHistory, <<" ">>)) = GetMoveHistory)

C12_Witness ==
    /\ lastCall.op = "applyMoveSequence"
    /\ IsTokenList(lastCall.seq)
    /\ Len(Pieces(lastCall.seq)) = 2
    /\ lastCall.preLen = 2
    /\ moveHistory = <<<<"B">>, <<"L">>, <<"F", "2">>, <<"B", "'">>>>

\* getCurrentState() of the instance when its history is h.
StateAfter(h) ==
    IF engine = "nested" THEN NestedGetCurrentState(h) ELSE FlatGetCurrentState(h)

TokensFound(input) == (CHOOSE m \in Malformed : m.input = input).tokens

\* C13: applyMoveSequence returns normally on malformed input: with no
\* well-formed token in the input the move history and the state are
\* unchanged; with well-formed tokens among other text exactly those tokens
\* are appended, in input order.
C13_MalformedInputDropped ==
    [][(lastCall'.op = "applyMoveSequence"
          /\ \E m \in Malformed : m.input = lastCall'.seq)
        => /\ moveHistory' = moveHistory \o TokensFound(lastCall'.seq)
           /\ TokensFound(lastCall'.seq) = <<>> =>
                 /\ moveHistory' = moveHistory
                 /\ StateAfter(moveHistory') = StateAfter(moveHistory)]_vars

C13_WitnessMixed ==
    /\ lastCall.op = "applyMoveSequence"
    /\ lastCall.seq = <<"R", "3", " ", "u", " ", "F">>
    /\ lastCall.preLen > 0
    /\ Len(moveHistory) = lastCall.preLen + 2

C13_Witness ==
    /\ lastCall.op = "applyMoveSequence"
    /\ lastCall.seq = <<"r", " ", "u", "2">>
    /\ lastCall.preLen > 0
    /\ Len(moveHistory) = lastCall.preLen

\* C14: after any constructor, applyMoveSequence (arbitrary strings),
\* scramble and reset calls, every entry of the move history is one of the
\* 18 tokens (a face letter of U, D, F, B, L, R, then nothing, ' or 2), so
\* the replay of the flat-array getCurrentState() never reaches the
\* "Invalid move" branch.
C14_HistoryHoldsOnlyTokens ==
    /\ \A k \in 1..Len(moveHistory) : moveHistory[k] \in Tokens
    /\ engine = "flat" => FlatGetCurrentState(moveHistory) # InvalidMove
    /\ engine = "nested" => NestedGetCurrentState(moveHistory) # NestedTypeError

C14_Witness ==
    /\ engine = "flat"
    /\ lastCall.op = "applyMoveSequence"
    /\ lastCall.seq = <<"D", "2", " ", "x">>
    /\ lastCall.preLen > 0
    /\ Len(moveHistory) = lastCall.preLen + 1

\* C15: in the flat-array engine, after scramble(n) the move history has
\* exactly n entries, for every n >= 0 and every outcome of the random
\* choices.
C15_FlatScrambleLength ==
    (engine = "flat" /\ lastCall.op = "scramble") => Len(GetMoveHistory) = lastCall.n

\* C16: in the nested-grid engine scramble(n) clears the earlier history:
\* whatever the history was (from applyMoveSequence or an earlier scramble),
\* after scramble(n) it holds exactly the n generated moves.
C16_NestedScrambleReplacesHistory ==
    (engine = "nested" /\ lastCall.op = "scramble") =>
        /\ Len(GetMoveHistory) = lastCall.n
        /\ \E randomMoves \in RandomMoves(ScrambleFaces("nested"), lastCall.n, Null) :
              GetMoveHistory = randomMoves

C16_Witness ==
    /\ engine = "nested"
    /\ lastCall.op = "scramble"
    /\ lastCall.n = 1
    /\ lastCall.preLen = 2
    /\ ncalls = 1

C16_WitnessScrambleTwice ==
    /\ engine = "nested"
    /\ lastCall.op = "scramble"
    /\ lastCall.n = 1
    /\ lastCall.preLen = 1
    /\ ncalls = 2

\* C18: scramble(0) is valid: whatever the history was before the call, it
\* leaves an empty move history and the solved state, and isSolved() is true.
C18_ScrambleZeroIsReset ==
    (lastCall.op = "scramble" /\ lastCall.n = 0) =>
        /\ GetMoveHistory = <<>>
        /\ GetCurrentState = InitialState
        /\ IsSolved

C18_Witness ==
    /\ lastCall.op = "scramble"
    /\ lastCall.n = 0
    /\ lastCall.preLen > 0

(***************************************************************************)
(* SpecScramble: one scramble call on a fresh instance, followed through   *)
(* the passes of its loops.  scr holds the locals of the call.             *)
(***************************************************************************)
\* scramble(numMoves) is entered: this.reset(), then the declarations.
ScrambleEnter(numMoves) ==
    /\ scr.pc = "idle"
    /\ moveHistory' = <<>>
    /\ scr' = [pc |-> "for", numMoves |-> numMoves, i |-> 0, lastFace |-> Null,
               potentialFace |-> Null, randomMoves |-> <<>>,
               preLen |-> Len(moveHistory)]
    /\ UNCHANGED <<engine, lastCall, ncalls, returned, agentState>>

\* One pass of the do-while whose test is true: the face is drawn again.
DrawRejected ==
    /\ scr.pc = "for"
    /\ scr.i < scr.numMoves
    /\ \E a \in 1..Len(ScrambleFaces(engine)) :
          /\ Rejected(scr.lastFace, ScrambleFaces(engine)[a])
          /\ scr' = [scr EXCEPT !.potentialFace = ScrambleFaces(engine)[a]]
    /\ UNCHANGED <<engine, moveHistory, lastCall, ncalls, returned, agentState>>

\* One pass of the do-while whose test is false, and the rest of the pass
\* of the for loop: the modifier is drawn and the move is pushed.
DrawAccepted ==
    /\ scr.pc = "for"
    /\ scr.i < scr.numMoves
    /\ \E a \in 1..Len(ScrambleFaces(engine)), b \in 1..Len(Modifiers) :
          /\ ~Rejected(scr.lastFace, ScrambleFaces(engine)[a])
          /\ scr' = [scr EXCEPT
                        !.potentialFace = ScrambleFaces(engine)[a],
                        !.randomMoves = @ \o <<ScrambleFaces(engine)[a] \o Modifiers[b]>>,
                        !.lastFace = ScrambleFaces(engine)[a],
                        !.i = @ + 1]
    /\ UNCHANGED <<engine, moveHistory, lastCall, ncalls, returned, agentState>>

\* The for loop is over: applyMoveSequence(randomMoves.join(" ")), return.
ScrambleReturn ==
    /\ scr.pc = "for"
    /\ scr.i >= scr.numMoves
    /\ moveHistory' = HistoryAfterApply(moveHistory, Join(scr.randomMoves, <<" ">>))
    /\ lastCall' = [op |-> "scramble", seq |-> <<>>, n |-> scr.numMoves,
                    preLen |-> scr.preLen]
    /\ ncalls' = ncalls + 1
    /\ scr' = NotScrambling
    /\ UNCHANGED <<engine, returned, agentState>>

InitScramble == \E e \in Engines : Constructor(e, <<>>)

DoScrambleEnter ==
    /\ lastCall.op = "new"
    /\ \E numMoves \in 0..MaxScrambleLen : ScrambleEnter(numMoves)

NextScramble == DoScrambleEnter \/ DrawRejected \/ DrawAccepted \/ ScrambleReturn

\* The random source is fair: a face that passes the test of the do-while
\* is drawn sooner or later; and a running call goes on running.
SpecScramble ==
    /\ InitScramble
    /\ [][NextScramble]_vars
    /\ WF_vars(DrawAccepted)
    /\ WF_vars(ScrambleReturn)

\* The face letter of a move token.
FaceOfMove(move) == Head(move)

NoSameOrOppositeInARow(moves) ==
    \A k \in 1..(Len(moves) - 1) :
        /\ FaceOfMove(moves[k + 1]) # FaceOfMove(moves[k])
        /\ FaceOfMove(moves[k + 1]) # OppositeFace(FaceOfMove(moves[k]))

\* C17: in the move history left by scramble(n) of the nested-grid engine,
\* the face of each move is neither the face of the move before it nor the
\* opposite of that face (R/L, U/D, F/B), for every outcome of the draws.
C17_NoSameOrOppositeFaceInARow ==
    (engine = "nested" /\ lastCall.op = "scramble") =>
        /\ Len(GetMoveHistory) = lastCall.n
        /\ NoSameOrOppositeInARow(GetMoveHistory)

C17_Witness ==
    /\ engine = "nested"
    /\ lastCall.op = "scramble"
    /\ scr.pc = "idle"
    /\ Len(moveHistory) = 2

\* What the pass-by-pass scramble leaves is what Scramble leaves in one step.
StepsAgreeWithScramble ==
    lastCall.op = "scramble" =>
        \E randomMoves \in RandomMoves(ScrambleFaces(engine), lastCall.n, Null) :
            moveHistory = HistoryAfterScramble(randomMoves)

SomeFaceAccepted ==
    \E a \in 1..Len(ScrambleFaces(engine)) :
        ~Rejected(scr.lastFace, ScrambleFaces(engine)[a])

\* C19: every call scramble(n) returns, the random source being fair: in
\* every pass of the for loop some face passes the test of the do-while
\* whatever the previous face was, so the do-while is left and the call
\* ends.
C19_ScrambleReturns ==
    /\ [](scr.pc = "for" => SomeFaceAccepted)
    /\ (scr.pc = "for") ~> (scr.pc = "idle" /\ lastCall.op = "scramble")

C19_Witness ==
    /\ scr.pc = "for"
    /\ scr.i = 1
    /\ scr.i < scr.numMoves
    /\ scr.potentialFace # scr.lastFace

StickerPairs == {<<FlatFaceOrder[k], i>> : k \in 1..Len(FlatFaceOrder), i \in 1..9}

\* C20: S(face, position) = "URFDLB".indexOf(face) * 9 + position - 1 is a
\* bijection from the 54 pairs (face of U, R, F, D, L, B; position 1..9)
\* onto the indices 0..53: no two pairs share an index and every index of
\* 0..53 is the index of a pair; so reading a cube of 54 different stickers
\* at the 54 pairs meets every sticker once, whatever moves were applied.
C20_AddressingIsBijection ==
    /\ Cardinality(StickerPairs) = 54
    /\ \A p \in StickerPairs : \A q \in StickerPairs :
          S(p[1], p[2]) = S(q[1], q[2]) => p = q
    /\ {S(p[1], p[2]) : p \in StickerPairs} = 0..53
    /\ \A c \in {FlatReplay(Labels, moveHistory)} :
          {Get(c, S(p[1], p[2])) : p \in StickerPairs} = {Labels[k] : k \in 1..54}

C20_Witness ==
    /\ engine = "flat"
    /\ lastCall.op = "applyMoveSequence"
    /\ S("U", 1) = 0
    /\ S("B", 9) = 53
    /\ FlatGetStickerAt(moveHistory, "R", 5)
          = Get(FlatGetCurrentState(moveHistory), S("R", 5))

\* Arguments outside the domain of S: a position outside 1..9, a face
\* outside U, R, F, D, L, B.
OutOfRangePairs ==
    {<<"U", 10>>, <<"U", 0>>, <<"R", 0>>, <<"F", 12>>, <<"B", 10>>,
     <<"X", 5>>, <<"X", 10>>, <<"u", 1>>}

\* C21: S and getStickerAt, called with a position outside 1..9 or a face
\* outside U, R, F, D, L, B, fail with an error: they never give the index
\* or the sticker of a valid (face, position) slot (S("U", 10) is not the
\* index of R1).
C21_OutOfRangeNeverAliases ==
    \A c \in {FlatReplay(Labels, moveHistory)} :
        \A p \in OutOfRangePairs :
            /\ S(p[1], p[2]) \notin {S(q[1], q[2]) : q \in StickerPairs}
            /\ Get(c, S(p[1], p[2])) \notin {Get(c, S(q[1], q[2])) : q \in StickerPairs}

ColourCodes == {COLORS[k] : k \in DOMAIN COLORS}

\* C22: in the flat-array engine the solved constant and every state that
\* getCurrentState() returns is an array of exactly 54 entries, each one of
\* the six one-letter colour codes; the solved constant holds nine equal
\* entries per face in the order U, R, F, D, L, B with U = Y, R = R, F = B,
\* D = W, L = O, B = G.
C22_FlatStateHas54Colours ==
    engine = "flat" =>
        /\ ArrayLength(InitialState) = 54
        /\ \A k \in 0..53 :
              Get(InitialState, k) = map_face_to_initial_sticker(FlatFaceOrder[(k \div 9) + 1])
        /\ ArrayLength(GetCurrentState) = 54
        /\ \A k \in 0..53 : Get(GetCurrentState, k) \in ColourCodes

(***************************************************************************)
(* SpecHistory: a caller asks for the move history and edits the array it  *)
(* was given, while the engine goes on being used.                         *)
(***************************************************************************)
MaxHistoryCalls == 1   \* applyMoveSequence calls made beside the edits
MaxEdits == 2          \* edits a caller makes to one returned array

\* Faulty variant: getMoveHistory hands out the engine's own array.
ReturnedOwnArray ==
    [held |-> TRUE, own |-> TRUE, array |-> moveHistory, edits |-> 0]

\* return [...this.moveHistory]: a new array holding the same entries.
ReturnedCopy ==
    [held |-> TRUE, own |-> FALSE, array |-> moveHistory, edits |-> 0]

CallGetMoveHistory ==
    /\ returned' = ReturnedCopy
    /\ UNCHANGED <<engine, moveHistory, lastCall, ncalls, scr, agentState>>

\* What a caller can do to an array: push, pop, or assign to an entry.
EditsOf(array) ==
    {Append(array, <<"R">>)}
    \cup (IF array = <<>> THEN {}
          ELSE {SubSeq(array, 1, Len(array) - 1),
                [array EXCEPT ![1] = <<"U", "'">>]})

\* The caller edits the array it holds.  An array has one identity: were it
\* the engine's own, the engine's history would be the edited array.
EditReturned ==
    /\ returned.held
    /\ returned.edits < MaxEdits
    /\ \E edited \in EditsOf(returned.array) \ {returned.array} :
          /\ returned' = [returned EXCEPT !.array = edited, !.edits = @ + 1]
          /\ moveHistory' = IF returned.own THEN edited ELSE moveHistory
    /\ UNCHANGED <<engine, lastCall, ncalls, scr, agentState>>

HistoryInputs == {<<"R">>, <<"U", "'", " ", "F", "2">>, <<"x">>}

HistoryApply ==
    /\ ncalls < MaxHistoryCalls
    /\ \E sequence \in HistoryInputs : ApplyMoveSequence(sequence)

InitHistory == \E e \in Engines : \E initialMoves \in InitialMoves :
                   Constructor(e, initialMoves)

NextHistory == HistoryApply \/ CallGetMoveHistory \/ EditReturned

SpecHistory == InitHistory /\ [][NextHistory]_vars

\* C23: getMoveHistory() returns a copy: when a caller adds, removes or
\* replaces entries of the array it was given, the engine's history, and
\* with it what getMoveHistory(), getCurrentState() and isSolved() return
\* afterwards, stay as they were.
C23_ReturnedHistoryIsCopy ==
    [][ (returned.held /\ returned'.array # returned.array
                       /\ returned'.edits = returned.edits + 1)
        => /\ moveHistory' = moveHistory
           /\ StateAfter(moveHistory') = StateAfter(moveHistory)
           /\ IsSolvedState(StateAfter(moveHistory'))
                = IsSolvedState(StateAfter(moveHistory)) ]_vars

\* A caller has edited twice the array it got from an engine with moves in
\* its history, and the two now differ.
C23_Witness ==
    /\ returned.held
    /\ returned.edits = 2
    /\ moveHistory # <<>>
    /\ returned.array # moveHistory

(***************************************************************************)
(* Single turns of L and F on a fresh engine (SpecTests).                  *)
(***************************************************************************)
\* The sticker at position p of a face once the history has been replayed
\* on a cube whose stickers carry the name of the place they start at.
LabelAt(face, p) ==
    IF engine = "nested"
    THEN NestedReplay(NestedLabels, moveHistory)[face][(p - 1) \div 3][(p - 1) % 3]
    ELSE Get(FlatReplay(Labels, moveHistory), S(face, p))

\* The name the sticker starting at position p of a face carries.
Origin(face, p) ==
    IF engine = "nested" THEN face \o ToString(p - 1) ELSE ToString(S(face, p))

C25_FrontTurnStickers ==
    FreshAfter(Str(<<<<"F">>>>)) =>
        /\ \A p \in {7, 8, 9} : StickerAt("U", p) = COLORS.RED
        /\ \A p \in {1, 4, 7} : StickerAt("R", p) = COLORS.WHITE
        /\ ~IsSolved

(***************************************************************************)
(* SpecAgent: the session agent RubiksCubeAgent.  It stores a move history,*)
(* a solved flag and a cube state, and builds a RubiksCube for every call. *)
(* server.ts is written against the nested-grid engine and stores one      *)
(* state; its variant for the flat-array engine (src/unnamed/part_003)     *)
(* stores stateHistory, whose last entry is the current state.  Here       *)
(* moveHistory is the history of the cube the last call built.             *)
(***************************************************************************)
MaxAgentCalls == 2   \* calls made on one agent

\* RubiksCubeAgent.initialState
AgentInitialState ==
    IF engine = "nested"
    THEN [moveHistory |-> <<>>, isSolved |-> TRUE, state |-> initialSolvedState]
    ELSE [moveHistory |-> <<>>, isSolved |-> TRUE, stateHistory |-> <<solved_cube>>]

\* The history of new RubiksCube(this.state.moveHistory.join(" ")).  The
\* flat-array constructor takes one argument: the state the variant hands it
\* as a second one is dropped.
getCurrentCube(a) ==
    LET initialMoves == Join(a.moveHistory, <<" ">>)
    IN  IF initialMoves # <<>> THEN HistoryAfterApply(<<>>, initialMoves) ELSE <<>>

\* { moveHistory: [...cube.getMoveHistory()], isSolved: cube.isSolved(),
\*   state: cube.getCurrentState() } for a cube with the given history; the
\* variant has stateHistory: [...this.state.stateHistory, cube.getCurrentState()].
AgentResponse(a, history) ==
    IF engine = "nested"
    THEN [moveHistory |-> history,
          isSolved    |-> NestedIsSolved(history),
          state       |-> NestedGetCurrentState(history)]
    ELSE [moveHistory  |-> history,
          isSolved     |-> FlatIsSolved(history),
          stateHistory |-> Append(a.stateHistory, FlatGetCurrentState(history))]

\* Faulty variant: scramble sets the solved flag as reset does.
ScrambledStateFlagTrue(history) ==
    IF engine = "nested"
    THEN [moveHistory |-> <<>>, isSolved |-> TRUE,
          state |-> NestedGetCurrentState(history)]
    ELSE [moveHistory |-> <<>>, isSolved |-> TRUE,
          stateHistory |-> <<FlatGetCurrentState(history)>>]

\* What scramble stores for a scrambled cube with the given history:
\* { moveHistory: [], isSolved: cube.isSolved(), state: cube.getCurrentState() }
ScrambledState(history) ==
    IF engine = "nested"
    THEN [moveHistory |-> <<>>,
          isSolved    |-> NestedIsSolved(history),
          state       |-> NestedGetCurrentState(history)]
    ELSE [moveHistory  |-> <<>>,
          isSolved     |-> FlatIsSolved(history),
          stateHistory |-> <<FlatGetCurrentState(history)>>]

AgentCall(op, seq, n) ==
    [op |-> op, seq |-> seq, n |-> n, preLen |-> Len(agentState.moveHistory)]

AgentApplyMoveSequence(sequence) ==
    /\ \E history \in {HistoryAfterApply(getCurrentCube(agentState), sequence)} :
          /\ moveHistory' = history
          /\ agentState' = AgentResponse(agentState, history)
    /\ lastCall' = AgentCall("applyMoveSequence", sequence, 0)
    /\ ncalls' = ncalls + 1
    /\ UNCHANGED <<engine, scr, returned>>

\* Faulty variant: the preview is stored.
PreviewStores(sequence) ==
    /\ \E history \in {HistoryAfterApply(getCurrentCube(agentState), sequence)} :
          /\ moveHistory' = history
          /\ agentState' = AgentResponse(agentState, history)
    /\ lastCall' = AgentCall("previewMoveSequence", sequence, 0)
    /\ ncalls' = ncalls + 1
    /\ UNCHANGED <<engine, scr, returned>>

\* The response is built and returned; setState is not called.
AgentPreviewMoveSequence(sequence) ==
    /\ moveHistory' = HistoryAfterApply(getCurrentCube(agentState), sequence)
    /\ lastCall' = AgentCall("previewMoveSequence", sequence, 0)
    /\ ncalls' = ncalls + 1
    /\ UNCHANGED <<engine, scr, returned, agentState>>

AgentReset ==
    /\ agentState' = AgentInitialState
    /\ lastCall' = AgentCall("reset", <<>>, 0)
    /\ ncalls' = ncalls + 1
    /\ UNCHANGED <<engine, moveHistory, scr, returned>>

\* let cube = new RubiksCube(); cube.scramble(numMoves); the moves are not
\* kept: the stored moveHistory is [].
AgentScramble(numMoves) ==
    /\ \E randomMoves \in RandomMoves(ScrambleFaces(engine), numMoves, Null) :
          \E history \in {HistoryAfterScramble(randomMoves)} :
              /\ moveHistory' = history
              /\ agentState' = ScrambledState(history)
    /\ lastCall' = AgentCall("scramble", <<>>, numMoves)
    /\ ncalls' = ncalls + 1
    /\ UNCHANGED <<engine, scr, returned>>

AgentInputs == {<<"R">>, <<"L", "2">>, <<"x", " ", "U", "'">>}

\* The numMoves handed to the agent's scramble.
AgentScrambleSizes == {0, 1}

InitAgent ==
    /\ engine \in Engines
    /\ moveHistory = <<>>
    /\ lastCall = [op |-> "new", seq |-> <<>>, n |-> 0, preLen |-> 0]
    /\ ncalls = 0
    /\ scr = NotScrambling
    /\ returned = NothingReturned
    /\ agentState = AgentInitialState

DoAgentApply ==
    ncalls < MaxAgentCalls /\ \E sequence \in AgentInputs : AgentApplyMoveSequence(sequence)

DoAgentPreview ==
    ncalls < MaxAgentCalls /\ \E sequence \in AgentInputs : AgentPreviewMoveSequence(sequence)

DoAgentReset == ncalls < MaxAgentCalls /\ AgentReset

DoAgentScramble ==
    ncalls < MaxAgentCalls /\ \E numMoves \in AgentScrambleSizes : AgentScramble(numMoves)

NextAgent == DoAgentApply \/ DoAgentPreview \/ DoAgentReset \/ DoAgentScramble

SpecAgent == InitAgent /\ [][NextAgent]_vars

\* The cube state the agent stores as current.
StoredCube(a) ==
    IF engine = "nested" THEN a.state ELSE a.stateHistory[Len(a.stateHistory)]

\* C26: previewMoveSequence(s) of the session agent does not modify the
\* current cube: the stored moveHistory, isSolved and cube state are the
\* same after the call as before it.
C26_PreviewLeavesAgentState ==
    [][ lastCall'.op = "previewMoveSequence"
        => /\ agentState'.moveHistory = agentState.moveHistory
           /\ agentState'.isSolved = agentState.isSolved
           /\ StoredCube(agentState') = StoredCube(agentState)
           /\ agentState' = agentState ]_vars

\* A preview was made of moves that would change the stored cube: the cube
\* built for the preview has a longer history than the stored one.
C26_Witness ==
    /\ lastCall.op = "previewMoveSequence"
    /\ agentState.moveHistory # <<>>
    /\ Len(moveHistory) > Len(agentState.moveHistory)

\* C27: moves applied after a scramble act on the scrambled cube: after
\* scramble(n) followed by applyMoveSequence(s), the stored cube state is
\* the state scramble stored, transformed by the well-formed moves of s in
\* order.
C27_MovesActOnScrambledCube ==
    [][ (lastCall.op = "scramble" /\ lastCall'.op = "applyMoveSequence")
        => StoredCube(agentState')
             = FoldHistory(StoredCube(agentState),
                           HistoryAfterApply(<<>>, lastCall'.seq)) ]_vars

\* C28: in every reachable state of the session agent the stored isSolved
\* flag is true exactly when the stored cube state equals the solved state.
C28_FlagMatchesStoredCube ==
    agentState.isSolved <=> (StoredCube(agentState) = InitialState)

\* The agent stores a scrambled cube that is not solved, with the flag false.
C28_Witness ==
    /\ lastCall.op = "scramble"
    /\ lastCall.n = 1
    /\ ~agentState.isSolved
    /\ StoredCube(agentState) # InitialState

\* After two calls the stored cube is solved again and the flag says so.
C28_WitnessSolved ==
    /\ ncalls = 2
    /\ lastCall.op \in {"reset", "scramble"}
    /\ agentState.isSolved

(***************************************************************************)
(* The corner cubies of the flat-array cube.                               *)
(***************************************************************************)
\* The eight corners, each as the indices of its three facelets.
Corners ==
    { {S("U", 9), S("R", 1), S("F", 3)},      \* URF
      {S("U", 7), S("F", 1), S("L", 3)},      \* UFL
      {S("U", 1), S("L", 1), S("B", 3)},      \* ULB
      {S("U", 3), S("B", 1), S("R", 3)},      \* UBR
      {S("D", 3), S("F", 9), S("R", 7)},      \* DFR
      {S("D", 1), S("L", 9), S("F", 7)},      \* DLF
      {S("D", 7), S("B", 9), S("L", 7)},      \* DBL
      {S("D", 9), S("R", 9), S("B", 7)} }     \* DRB

\* Where a table sends the sticker at index i: an index outside the table
\* stays.
Image(t, i) == IF i \in Sources(t) THEN Succ(t, i) ELSE i

\* C29: each of the six flat-array move tables keeps the corner cubies
\* intact: the images of the three facelets of a corner are the three
\* facelets of one single corner, so the three stickers found on a corner
\* after a turn are the three that sat together on one corner before it.
C29_TablesKeepCornersIntact ==
    /\ \A X \in FaceLetters : \A corner \in Corners :
          {Image(MoveTable(X), i) : i \in corner} \in Corners
    /\ \A c \in {FlatReplay(Labels, moveHistory)} :
          \A X \in FaceLetters : \A n \in {apply_move(c, MoveTable(X))} :
              \A corner \in Corners :
                  {Get(n, i) : i \in corner} \in {{Get(c, j) : j \in k} : k \in Corners}

(***************************************************************************)
(* The two engines side by side.                                           *)
(***************************************************************************)
\* C30: the two engines are behaviourally identical: for every move
\* sequence applied to a solved cube, the flat-array state read at
\* S(face, 3*row + col + 1) is the nested-grid state at [face][row][col],
\* for every face, row and column, and the two isSolved() agree.
C30_EnginesAgree ==
    \A flatState \in {FlatGetCurrentState(moveHistory)} :
    \A nestedState \in {NestedGetCurrentState(moveHistory)} :
        /\ \A face \in FaceLetters : \A row \in 0..2 : \A col \in 0..2 :
              Get(flatState, S(face, 3 * row + col + 1)) = nestedState[face][row][col]
        /\ FlatIsSolvedState(flatState) = NestedIsSolvedState(nestedState)

=============================================================================
